---- MODULE Spec2Model ----
(***************************************************************************)
(* Model of src/main.py: the microarray pipeline                           *)
(*   get_sample_index -> analyze_microarray -> find_uniques_shared         *)
(* as main() runs it.  Files are sequences of parsed csv rows; Python      *)
(* dicts are records [keys, at] that keep the insertion order of the keys; *)
(* a float average is the exact fraction [num, den].                       *)
(***************************************************************************)
EXTENDS Integers, Sequences, FiniteSets, TLC

\* ---------------------------------------------------------------- bounds
MaxRows == 2        \* row pairs the two row streams can yield
NumSamples == 2     \* sample rows of the annotation file = value columns

\* threshold: float = 5.0, the default of analyze_microarray
Threshold == 5

Values == {1, 6, 9}                  \* expression values of the inputs
Genes == {"G1", "G2"}                \* gene_id column of the probe table
Acronyms == {"CA1", "CA3", "DG"}     \* structure_acronym column
StructureNames == {"CA1", "CA3"}     \* <first_structure>, <second_structure>
Header == "structure_acronym"        \* the header row of the sample file

VARIABLES
    structures,     \* main: [<first_structure>, <second_structure>]
    sample_file,    \* the sample annotation file: header, then acronyms
    pc,             \* position of main()
    samples,        \* main: result of get_sample_index
    rows,           \* the row pairs zip has yielded so far, in file order
    logged,         \* the last iteration called logging.error
    exhausted,      \* the stream whose end stopped the zip
    probes,         \* analyze_microarray: gene_id -> Probe
    averages,       \* analyze_microarray: gene_id -> best average
    array,          \* analyze_microarray: gene_id -> structure groups
    uniques,        \* main: first result of find_uniques_shared
    shared          \* main: second result of find_uniques_shared

vars == <<structures, sample_file, pc, samples, rows, logged, exhausted,
          probes, averages, array, uniques, shared>>

\* ------------------------------------------------------- Python helpers
Range(s) == {s[i] : i \in DOMAIN s}

RECURSIVE Sum(_)
Sum(s) == IF s = <<>> THEN 0 ELSE Head(s) + Sum(Tail(s))

\* keys of {k: ... for k in s}: first occurrences, in order
RECURSIVE DictKeys(_)
DictKeys(s) ==
    IF s = <<>> THEN <<>>
    ELSE LET front == DictKeys(SubSeq(s, 1, Len(s) - 1))
             last == s[Len(s)]
         IN  IF last \in Range(front) THEN front ELSE Append(front, last)

EmptyDict == [keys |-> <<>>, at |-> <<>>]

\* d[k] = v: a new key goes last, a known key keeps its place
DictSet(d, k, v) ==
    [keys |-> IF k \in Range(d.keys) THEN d.keys ELSE Append(d.keys, k),
     at |-> [x \in (DOMAIN d.at) \cup {k} |-> IF x = k THEN v ELSE d.at[x]]]

Has(d, k) == k \in Range(d.keys)

\* d.values()
DictValues(d) == [i \in 1..Len(d.keys) |-> d.at[d.keys[i]]]

\* list[index] with Python's negative indices
PyIndex(list, index) ==
    IF index >= 0 THEN list[index + 1] ELSE list[Len(list) + index + 1]

\* a < b on the fractions that stand for floats
Less(a, b) == a.num * b.den < b.num * a.den

\* max(a, b): the first of the largest
PyMax(a, b) == IF Less(a, b) THEN b ELSE a

calc_average(values) == [num |-> Sum(values), den |-> Len(values)]

\* ------------------------------------------------------ get_sample_index
\* lines 88-90: every entry of the structures list is compared to the row
RECURSIVE MatchStructures(_, _, _, _)
MatchStructures(indices, todo, sample_line, line_index) ==
    IF todo = <<>> THEN indices
    ELSE LET structure == Head(todo)
             next == IF structure = sample_line
                     THEN [indices EXCEPT
                               ![structure] = Append(@, line_index - 1)]
                     ELSE indices
         IN  MatchStructures(next, Tail(todo), sample_line, line_index)

\* line 87: enumerate(sample_csv) counts from 0
RECURSIVE ScanSamples(_, _, _, _)
ScanSamples(indices, structs, sample_csv, line_index) ==
    IF sample_csv = <<>> THEN indices
    ELSE ScanSamples(MatchStructures(indices, structs, Head(sample_csv),
                                     line_index),
                     structs, Tail(sample_csv), line_index + 1)

get_sample_index(file, structs) ==
    LET sample_csv == Tail(file)          \* next(sample_csv) skips the header
        brain_region_indices == [s \in Range(structs) |-> <<>>]
    IN  [keys |-> DictKeys(structs),
         at |-> ScanSamples(brain_region_indices, structs, sample_csv, 0)]

\* ---------------------------------------------------- analyze_microarray
\* Probe(*probes_line); the columns that no claim reads are left out
Probe(line) == [probe_id |-> line.probe_id, gene_id |-> line.gene_id]

\* [micro_values[index] for index in indices]
RegionValues(micro_values, indices) ==
    [k \in 1..Len(indices) |-> PyIndex(micro_values, indices[k])]

\* faulty variant of StructureGroups: the groups in reverse order
StructureGroupsReversed(micro_values, sample_indices) ==
    LET regions == DictValues(sample_indices)
    IN  [i \in 1..Len(regions) |->
             RegionValues(micro_values, regions[Len(regions) + 1 - i])]

\* [[micro_values[index] for index in indices]
\*  for indices in sample_indices.values()]
StructureGroups(micro_values, sample_indices) ==
    LET regions == DictValues(sample_indices)
    IN  [i \in 1..Len(regions) |-> RegionValues(micro_values, regions[i])]

\* any(value >= threshold for value in values)
AnyValue(values, threshold) ==
    \E k \in DOMAIN values : values[k] >= threshold

\* any(value >= threshold for value in itertools.chain(*groups))
AnyGroupValue(groups, threshold) ==
    \E i \in DOMAIN groups : AnyValue(groups[i], threshold)

\* faulty variant of ReplaceIfHigher: the latest row always replaces
ReplaceAlways(st, probe, average, groups) ==
    LET gene == probe.gene_id
    IN  [probes |-> DictSet(st.probes, gene, probe),
         averages |-> DictSet(st.averages, gene, average),
         array |-> DictSet(st.array, gene, groups)]

\* faulty variant of ReplaceIfHigher: an equal average replaces too
ReplaceIfNotLower(st, probe, average, groups) ==
    LET gene == probe.gene_id
    IN  IF ~Less(average, st.averages.at[gene])
        THEN [probes |-> DictSet(st.probes, gene, probe),
              averages |-> DictSet(st.averages, gene, average),
              array |-> DictSet(st.array, gene, groups)]
        ELSE st

\* lines 139-145: the gene is a key of probes
ReplaceIfHigher(st, probe, average, groups) ==
    LET gene == probe.gene_id
        highest_average == PyMax(st.averages.at[gene], average)
    IN  IF Less(st.averages.at[gene], highest_average)
        THEN [probes |-> DictSet(st.probes, gene, probe),
              averages |-> DictSet(st.averages, gene, highest_average),
              array |-> DictSet(st.array, gene, groups)]
        ELSE st

\* lines 147-152: the gene is not a key of probes
AdmitIfExpressed(st, probe, average, groups, threshold) ==
    LET gene == probe.gene_id
    IN  IF AnyGroupValue(groups, threshold)
        THEN [probes |-> DictSet(st.probes, gene, probe),
              averages |-> DictSet(st.averages, gene, average),
              array |-> DictSet(st.array, gene, groups)]
        ELSE st

\* lines 129-152: the body of the loop after the identifier check
AnalyzeRow(st, line, sample_indices, threshold) ==
    LET micro_values == line.values
        average == calc_average(micro_values)
        probe == Probe(line)
        groups == StructureGroups(micro_values, sample_indices)
    IN  IF Has(st.probes, probe.gene_id)
        THEN ReplaceIfHigher(st, probe, average, groups)
        ELSE AdmitIfExpressed(st, probe, average, groups, threshold)

\* -------------------------------------------------- find_uniques_shared
\* [any(value >= threshold for value in values) for values in regions]
Condition(regions, threshold) ==
    [i \in DOMAIN regions |-> AnyValue(regions[i], threshold)]

\* condition.index(True), counted from 1; 0 stands for ValueError
IndexOfTrue(condition) ==
    IF \E i \in DOMAIN condition : condition[i]
    THEN CHOOSE i \in DOMAIN condition :
             condition[i] /\ \A j \in 1..(i - 1) : ~condition[j]
    ELSE 0

\* lines 168-174: the loop over array.items(), in insertion order
RECURSIVE ClassifyGenes(_, _, _, _, _)
ClassifyGenes(todo, arr, structs, threshold, out) ==
    IF todo = <<>> THEN out
    ELSE LET gene == Head(todo)
             condition == Condition(arr.at[gene], threshold)
             index == IndexOfTrue(condition)
         IN  IF \A i \in DOMAIN condition : condition[i]
             THEN ClassifyGenes(Tail(todo), arr, structs, threshold,
                      [out EXCEPT !.shared = Append(@, gene)])
             ELSE IF index = 0
             THEN [out EXCEPT !.raised = TRUE]
             ELSE ClassifyGenes(Tail(todo), arr, structs, threshold,
                      [out EXCEPT
                           !.unique[structs[index]] = Append(@, gene)])

find_uniques_shared(arr, structs, threshold) ==
    ClassifyGenes(arr.keys, arr, structs, threshold,
                  [raised |-> FALSE,
                   shared |-> <<>>,
                   unique |-> [s \in Range(structs) |-> <<>>]])

\* faulty variant of LoopBody: a mismatching pair is logged and skipped
LoopBodySkipMismatch(st, line, sample_indices, threshold) ==
    [logged |-> line.micro_id # line.probe_id,
     st |-> IF line.micro_id # line.probe_id THEN st
            ELSE AnalyzeRow(st, line, sample_indices, threshold)]

\* lines 125-152: one iteration of the loop; a mismatch of the leading
\* identifiers is logged and the pair is analysed all the same
LoopBody(st, line, sample_indices, threshold) ==
    [logged |-> line.micro_id # line.probe_id,
     st |-> AnalyzeRow(st, line, sample_indices, threshold)]

EmptyState == [probes |-> EmptyDict, averages |-> EmptyDict,
               array |-> EmptyDict]

\* lines 109-154: the whole loop over the pairs of zip(micro_csv, probes_csv)
RECURSIVE analyze_microarray(_, _, _)
analyze_microarray(pairs, sample_indices, threshold) ==
    IF pairs = <<>> THEN EmptyState
    ELSE LoopBody(analyze_microarray(SubSeq(pairs, 1, Len(pairs) - 1),
                                     sample_indices, threshold),
                  pairs[Len(pairs)], sample_indices, threshold).st

\* ----------------------------------------------------------------- main
\* the row pairs the two files can hold at position n: the probe table's
\* probe_id is n, the matrix's leading identifier is n or another one
Lines(n) ==
    [micro_id : {n, n + 1}, probe_id : {n}, gene_id : Genes,
     values : [1..NumSamples -> Values]]

\* line 206: two different structure names, or the same name twice
StructureLists(different) ==
    {s \in [1..2 -> StructureNames] : (s[1] # s[2]) = different}

Init ==
    /\ \/ structures \in StructureLists(TRUE)
       \/ structures \in StructureLists(FALSE)
    /\ sample_file \in {<<Header>> \o acronyms :
                            acronyms \in [1..NumSamples -> Acronyms]}
    /\ pc = "get_sample_index"
    /\ samples = EmptyDict
    /\ rows = <<>>
    /\ logged = FALSE
    /\ exhausted = "none"
    /\ probes = EmptyDict
    /\ averages = EmptyDict
    /\ array = EmptyDict
    /\ uniques = <<>>
    /\ shared = <<>>

\* line 211
SampleIndex ==
    /\ pc = "get_sample_index"
    /\ samples' = get_sample_index(sample_file, structures)
    /\ pc' = "analyze_microarray"
    /\ UNCHANGED <<structures, sample_file, rows, logged, exhausted, probes,
                   averages, array, uniques, shared>>

\* lines 125-152: zip yields the next pair and the loop body runs on it
ProcessPair ==
    /\ pc = "analyze_microarray"
    /\ Len(rows) < MaxRows
    /\ \E line \in Lines(Len(rows) + 1) :
          LET out == LoopBody([probes |-> probes, averages |-> averages,
                               array |-> array],
                              line, samples, Threshold)
          IN  /\ rows' = Append(rows, line)
              /\ logged' = out.logged
              /\ probes' = out.st.probes
              /\ averages' = out.st.averages
              /\ array' = out.st.array
    /\ UNCHANGED <<structures, sample_file, pc, samples, exhausted, uniques,
                   shared>>

\* lines 125, 154: zip stops when either stream ends, whatever the other
\* still holds, and the function returns probes and array
ReturnProbes ==
    /\ pc = "analyze_microarray"
    /\ exhausted' \in {"micro_csv", "probes_csv", "both"}
    /\ pc' = "find_uniques_shared"
    /\ UNCHANGED <<structures, sample_file, samples, rows, logged, probes,
                   averages, array, uniques, shared>>

\* line 213: the call returns both lists, or its ValueError ends main
Classify ==
    /\ pc = "find_uniques_shared"
    /\ LET out == find_uniques_shared(array, structures, Threshold)
       IN  IF out.raised
           THEN /\ pc' = "ValueError"
                /\ UNCHANGED <<uniques, shared>>
           ELSE /\ pc' = "print_findings"
                /\ uniques' = out.unique
                /\ shared' = out.shared
    /\ UNCHANGED <<structures, sample_file, samples, rows, logged, exhausted,
                   probes, averages, array>>

Next == SampleIndex \/ ProcessPair \/ ReturnProbes \/ Classify

Spec == Init /\ [][Next]_vars

\* ------------------------------------------------------------- claims
Same(a, b) == a.num * b.den = b.num * a.den

Admitted == Range(probes.keys)

Returned == pc \in {"find_uniques_shared", "print_findings", "ValueError"}

Classified == pc \in {"print_findings", "ValueError"}

\* the row pair of rs that carries the probe
RowOfProbe(rs, probe) ==
    rs[CHOOSE i \in DOMAIN rs : rs[i].probe_id = probe.probe_id]

\* the row's values at the recorded positions reach the threshold
Expressed(line) ==
    AnyGroupValue(StructureGroups(line.values, samples), Threshold)

\* the first row of the gene that is Expressed
FirstExpressed(gene) ==
    CHOOSE i \in DOMAIN rows :
        /\ rows[i].gene_id = gene /\ Expressed(rows[i])
        /\ \A j \in 1..(i - 1) :
               ~(rows[j].gene_id = gene /\ Expressed(rows[j]))

\* the rows of the gene from position first on
RowsOfGene(gene, first) ==
    {i \in first..Len(rows) : rows[i].gene_id = gene}

\* the probe's row is one of the rows at the positions and none of them
\* has a higher average
HighestOf(probe, positions) ==
    /\ \E i \in positions : rows[i].probe_id = probe.probe_id
    /\ \A i \in positions :
           ~Less(calc_average(RowOfProbe(rows, probe).values),
                 calc_average(rows[i].values))

\* C1 as claimed: the retained probe's row has the highest average of all
\* input rows of its gene.
C1_HighestOfAllRows ==
    \A gene \in Admitted : HighestOf(probes.at[gene], RowsOfGene(gene, 1))

\* C1 as amended: the retained probe's row has the highest average of the
\* input rows of its gene from the first row on that has a value >=
\* threshold at the recorded structure positions; the rows of the gene
\* before that one are not counted.
C1_HighestSinceAdmission ==
    \A gene \in Admitted :
        HighestOf(probes.at[gene], RowsOfGene(gene, FirstExpressed(gene)))

\* a later row replaced the probe that admitted the gene
C1_Witness ==
    /\ Returned
    /\ \E gene \in Admitted :
           /\ FirstExpressed(gene) = 1
           /\ probes.at[gene].probe_id = 2

\* 0-based positions (header excluded) of the sample rows of the structure
PositionsOf(structure) ==
    LET Matches(p) == sample_file[p + 2] = structure
    IN  SelectSeq([i \in 1..(Len(sample_file) - 1) |-> i - 1], Matches)

\* C3: get_sample_index returns for each requested structure exactly the
\* 0-based positions of its sample rows, in file order, and position p
\* reads the p-th value after the probe-id column.
C3_ZeroBasedPositions ==
    pc # "get_sample_index" =>
        \A k \in DOMAIN structures :
            /\ samples.at[structures[k]] = PositionsOf(structures[k])
            /\ \A line \in Lines(1) :
                   RegionValues(line.values, samples.at[structures[k]])
                   = [i \in 1..Len(PositionsOf(structures[k])) |->
                          line.values[PositionsOf(structures[k])[i] + 1]]

\* C4: for two rows of one gene with different averages, both input orders
\* retain the probe of the higher-average row.
C4_OrderIndependent ==
    (/\ pc = "find_uniques_shared" /\ Len(rows) = 2
     /\ rows[1].gene_id = rows[2].gene_id
     /\ ~Same(calc_average(rows[1].values), calc_average(rows[2].values)))
    => LET gene == rows[1].gene_id
           swapped == analyze_microarray(<<rows[2], rows[1]>>, samples,
                                         Threshold)
           higher == IF Less(calc_average(rows[1].values),
                             calc_average(rows[2].values))
                     THEN rows[2] ELSE rows[1]
       IN  (Has(probes, gene) \/ Has(swapped.probes, gene))
           => /\ Has(probes, gene) /\ Has(swapped.probes, gene)
              /\ probes.at[gene] = Probe(higher)
              /\ swapped.probes.at[gene] = Probe(higher)

\* the structures whose unique list holds the gene
UniqueOf(gene) ==
    {s \in DOMAIN uniques : \E i \in DOMAIN uniques[s] : uniques[s][i] = gene}

\* how often the gene occurs in all the lists together
RECURSIVE Count(_, _)
Count(list, gene) ==
    IF list = <<>> THEN 0
    ELSE (IF Head(list) = gene THEN 1 ELSE 0) + Count(Tail(list), gene)

RECURSIVE CountUnique(_, _)
CountUnique(names, gene) ==
    IF names = {} THEN 0
    ELSE LET s == CHOOSE x \in names : TRUE
         IN  Count(uniques[s], gene) + CountUnique(names \ {s}, gene)

Occurrences(gene) == Count(shared, gene) + CountUnique(DOMAIN uniques, gene)

\* C2: a gene is in shared iff every group has a value >= threshold;
\* otherwise it is in the unique list of exactly the first structure, in
\* configured order, whose group has one.
C2_SharedOrFirstUnique ==
    Classified =>
        \A gene \in Range(array.keys) :
            LET condition == Condition(array.at[gene], Threshold)
                all == \A i \in DOMAIN condition : condition[i]
            IN  /\ (gene \in Range(shared)) <=> all
                /\ ~all =>
                       \E k \in DOMAIN condition :
                           /\ condition[k]
                           /\ \A j \in 1..(k - 1) : ~condition[j]
                           /\ UniqueOf(gene) = {structures[k]}

\* C5: the unique lists and shared are pairwise disjoint, an admitted gene
\* occurs at most once in all of them, and classification completes.
C5_DisjointAndComplete ==
    Classified =>
        /\ pc = "print_findings"
        /\ \A gene \in Admitted : Occurrences(gene) <= 1
        /\ \A gene \in Genes :
               /\ Cardinality(UniqueOf(gene)) <= 1
               /\ ~(gene \in Range(shared) /\ UniqueOf(gene) # {})

\* C7: every gene of the structure-values mapping has a group with a
\* value >= threshold.
C7_AlwaysExpressed ==
    \A gene \in Range(array.keys) : AnyGroupValue(array.at[gene], Threshold)

\* C8: a gene without a value >= threshold in any group is left out of all
\* lists without an error, and the other genes are classified.
C8_SilentlyDropped ==
    Classified =>
        \A gene \in Range(array.keys) :
            ~AnyGroupValue(array.at[gene], Threshold) =>
                /\ pc = "print_findings"
                /\ Occurrences(gene) = 0
                /\ \A other \in Range(array.keys) :
                       AnyGroupValue(array.at[other], Threshold)
                           => Occurrences(other) = 1

\* the groups the code would store for the probe's own row: one per entry
\* of names, read at the positions recorded for that name
GroupsOfRow(probe, names) ==
    [i \in 1..Len(names) |->
         RegionValues(RowOfProbe(rows, probe).values, samples.at[names[i]])]

\* C6 as claimed: each stored gene has one group per entry of the configured
\* structure list, group i read at the positions of structures[i], also
\* when both names are the same.
C6_GroupPerConfiguredName ==
    \A gene \in Range(array.keys) :
        /\ Len(array.at[gene]) = Len(structures)
        /\ array.at[gene] = GroupsOfRow(probes.at[gene], structures)

\* C6 as amended: each stored gene has one group per different structure
\* name, in the order of first occurrence in the configured list: two
\* groups in configured order when the names differ, a single group when
\* both names are the same.
C6_GroupPerDifferentName ==
    LET names == IF structures[1] = structures[2]
                 THEN <<structures[1]>> ELSE structures
    IN  \A gene \in Range(array.keys) :
            /\ Len(array.at[gene]) = Len(names)
            /\ array.at[gene] = GroupsOfRow(probes.at[gene], names)

\* both names are the same and a gene is stored, after a replacement, with
\* its single group
C6_Witness ==
    /\ structures[1] = structures[2]
    /\ Len(rows) = 2
    /\ \E gene \in Range(array.keys) :
           /\ FirstExpressed(gene) = 1
           /\ probes.at[gene].probe_id = 2
           /\ Len(array.at[gene]) = 1
           /\ array.at[gene][1] # <<>>

Matching(rs) == [i \in DOMAIN rs |-> [rs[i] EXCEPT !.micro_id = rs[i].probe_id]]

\* C10: a pair whose identifiers differ is logged and then analysed, with
\* all later pairs, exactly as a matching pair with the same values; when
\* a stream ends before the other the loop stops there without error and
\* the function returns what it has aggregated.
C10_MismatchOnlyLogged ==
    /\ [probes |-> probes, averages |-> averages, array |-> array]
           = analyze_microarray(Matching(rows), samples, Threshold)
    /\ rows # <<>> =>
           logged = (rows[Len(rows)].micro_id # rows[Len(rows)].probe_id)
    /\ exhausted # "none" => Returned

\* the first pair's identifiers differ, its probe was stored, a second pair
\* was analysed after it, and the probe table ended before the matrix
C10_Witness ==
    /\ exhausted = "probes_csv"
    /\ Len(rows) = 2
    /\ rows[1].micro_id # rows[1].probe_id
    /\ rows[1].gene_id # rows[2].gene_id
    /\ Admitted = {rows[1].gene_id, rows[2].gene_id}

====
